---- MODULE Spec2Model ----
(***************************************************************************)
(* A model of unq's RateLimiter (src/src/unq/services/rate_limiter.py):    *)
(* the call queue, the four locks, the caller-side operations submit,      *)
(* start and stop, the dispatch thread _run, and the pooled execution of   *)
(* one call (_execute_function_call, _execute_coroutine_threaded).         *)
(*                                                                         *)
(* Granularity.  Every acquisition of a lock is a step of its own, guarded *)
(* by the lock being free, so a thread that needs a held lock is blocked   *)
(* at that step.  A release is folded into the step before it, and a       *)
(* property that takes and drops one lock around a read (stopped,          *)
(* repetition_interval, _queue_is_empty) is one step guarded by that lock. *)
(* Time is kept relative: the time since the last hand-off to the pool and *)
(* the remaining time of each sleep, both in whole units.                  *)
(***************************************************************************)
EXTENDS Integers, Sequences, FiniteSets, TLC

\* ------------------------------------------------------------------ bounds
MaxRecords == 3
MaxThreads == 2
MaxInterval == 2
MaxExecRecords == 2
MaxWorkers == 2

\* ------------------------------------------------------------- the threads
Owner == {"ctl"}
Submitters == {"s1", "s2"}
Callers == Owner \cup Submitters
Threads == 1..MaxThreads
RecordIds == 1..MaxRecords
NoOne == "none"
\* self._event_loop = get_event_loop(): the loop of the thread that made the
\* limiter; that thread runs the loop's callbacks between its own calls.
LoopThread == "ctl"
\* The name under which a dispatch thread holds a lock.
Tid(t) == ToString(t)

VARIABLES
    pc,                  \* each caller's position in submit / start / stop
    joinTarget,          \* the Thread object a caller's join() was called on
    stop_lock,           \* holder of self._stop_lock
    queue_lock,          \* holder of self._queue_lock
    queue_condition,     \* holder of the lock of self._queue_condition
    stopped,             \* self._stopped
    call_queue,          \* self._call_queue, oldest first
    nextId,              \* serial number of the next record to be enqueued
    runner,              \* self._internal_runner_thread (0: never started)
    nthreads,            \* Thread objects started so far
    tpc,                 \* each dispatch thread's position in _run
    function_call,       \* _run's local function_call (0: none)
    remaining,           \* time left of each dispatch thread's sleep
    repetition_interval, \* self._repetition_interval
    sinceDispatch,       \* time since the last hand-off, capped at MaxInterval
    dispatched,          \* the hand-offs to the executor, in order
    stopReturned,        \* a stop() that joined has returned, no start() since
    fn,                  \* each record's function: how a call of it ends
    future,              \* each record's future (state "none": no future)
    wpc,                 \* each record's position in _execute_function_call
    cloop,               \* the event loop _execute_coroutine_threaded made for it
    loop_callbacks,      \* call_soon_threadsafe callbacks self._event_loop has yet to run
    submit_call,         \* submit's locals function_call and future, per caller
    keep_results,        \* the keep_result argument each record was submitted with
    via_facade,          \* the keep_result given to the facade's submit for it
    setter_arg,          \* the value given to the constructor or setter call
    raised               \* the error the constructor or the last setter call raised

vars == <<pc, joinTarget, stop_lock, queue_lock, queue_condition, stopped,
          call_queue, nextId, runner, nthreads, tpc, function_call, remaining,
          repetition_interval, sinceDispatch, dispatched, stopReturned,
          fn, future, wpc, cloop, loop_callbacks,
          submit_call, keep_results, via_facade, setter_arg, raised>>

lockVars == <<stop_lock, queue_lock, queue_condition>>
threadVars == <<tpc, function_call, remaining>>
dispatchVars == <<pc, joinTarget, stop_lock, queue_lock, queue_condition, stopped,
                  call_queue, nextId, runner, nthreads, tpc, function_call,
                  remaining, repetition_interval, sinceDispatch, dispatched,
                  stopReturned>>
execVars == <<fn, future, wpc, cloop, loop_callbacks>>
callVars == <<submit_call, keep_results, via_facade, setter_arg, raised>>

Min(a, b) == IF a < b THEN a ELSE b
Max(a, b) == IF a > b THEN a ELSE b

\* A future: its state, and whose call's value or error it carries (0: none).
NoFuture == [state |-> "none", of |-> 0]
PendingFuture == [state |-> "pending", of |-> 0]
\* submit's locals while no call of it is under way.
NoCall == [function_call |-> 0, future |-> 0]
\* No value has been given to the constructor or the setter.
NoValue == [kind |-> "none"]
\* The event loop of one coroutine call: whether its thread was started, the
\* coroutine scheduled on it, stop() called on it, how many turns it has run,
\* and whether run_forever has returned.
NoLoop == [started |-> FALSE, scheduled |-> FALSE, stopping |-> FALSE,
           turns |-> 0, exited |-> FALSE]

\* RateLimiter.__init__ after the interval is stored: created stopped, queue
\* empty, no lock held.
InitFields ==
    /\ joinTarget = [c \in Callers |-> 0]
    /\ stop_lock = NoOne
    /\ queue_lock = NoOne
    /\ queue_condition = NoOne
    /\ stopped = TRUE
    /\ call_queue = <<>>
    /\ nextId = 1
    /\ runner = 0
    /\ nthreads = 0
    /\ tpc = [t \in Threads |-> "unborn"]
    /\ function_call = [t \in Threads |-> 0]
    /\ remaining = [t \in Threads |-> 0]
    /\ sinceDispatch = 0
    /\ dispatched = <<>>
    /\ stopReturned = FALSE
    /\ fn = [r \in RecordIds |-> "none"]
    /\ future = [r \in RecordIds |-> NoFuture]
    /\ wpc = [r \in RecordIds |-> "none"]
    /\ cloop = [r \in RecordIds |-> NoLoop]
    /\ loop_callbacks = <<>>
    /\ submit_call = [c \in Callers |-> NoCall]
    /\ keep_results = [r \in RecordIds |-> "none"]
    /\ via_facade = [r \in RecordIds |-> "none"]

\* A limiter made with a nonnegative number of time units as its interval.
Init ==
    /\ pc = [c \in Callers |-> "idle"]
    /\ repetition_interval \in 0..MaxInterval
    /\ setter_arg = NoValue
    /\ raised = "none"
    /\ InitFields

\* Condition.notify_all: every thread in wait() is woken and must take the
\* condition's lock again before wait() returns.
NotifyAll(p) == [t \in Threads |-> IF p[t] = "waiting" THEN "reacquire" ELSE p[t]]

\* ------------------------------------------------------------------ submit
\* with self._queue_lock: self._call_queue.put(function_call)
\* (Variant: a put at the head of the queue, as a LifoQueue's would be.)
PutInFront(q, r) == <<r>> \o q
Put(q, r) == Append(q, r)

\* if keep_result: future = self._event_loop.create_future() else: None
\* (Variant: a future is made for every call.)
NewFutureAlways(keep_result) == PendingFuture
NewFuture(keep_result) == IF keep_result THEN PendingFuture ELSE NoFuture

\* The future submit holds in its local and returns: the one bundled in the
\* record r (0: None).
FutureRef(r, f) == IF f.state = "none" THEN 0 ELSE r

\* (What the step leaves of via_facade is said by its caller: a direct submit
\* or the facade's.)
SubmitPut(c, function, keep_result) ==
    /\ pc[c] = "idle"
    /\ nextId <= MaxRecords
    /\ queue_lock = NoOne
    /\ queue_lock' = c
    /\ fn' = [fn EXCEPT ![nextId] = function]
    /\ future' = [future EXCEPT ![nextId] = NewFuture(keep_result)]
    /\ call_queue' = Put(call_queue, nextId)
    /\ nextId' = nextId + 1
    /\ pc' = [pc EXCEPT ![c] = "submit_notify"]
    /\ submit_call' = [submit_call EXCEPT ![c] =
                         [function_call |-> nextId,
                          future |-> FutureRef(nextId, NewFuture(keep_result))]]
    /\ keep_results' = [keep_results EXCEPT ![nextId] =
                          IF keep_result THEN "keep" ELSE "discard"]
    /\ UNCHANGED <<joinTarget, stop_lock, queue_condition, stopped, runner,
                   nthreads, threadVars, repetition_interval, sinceDispatch,
                   dispatched, stopReturned, wpc, cloop, loop_callbacks,
                   setter_arg, raised>>

\* A submit called on the limiter itself.
DirectSubmitPut(c, function, keep_result) ==
    /\ SubmitPut(c, function, keep_result)
    /\ UNCHANGED via_facade

\* _ContextManagedRateLimiter.submit: the call goes to the limiter's submit,
\* with True if keep_result and with False otherwise.
\* (Variant: the facade always asks for the result to be kept.)
FacadeKeepsAlways(keep_result) == TRUE
FacadeKeep(keep_result) == IF keep_result THEN TRUE ELSE FALSE

FacadeSubmitPut(c, function, keep_result) ==
    /\ SubmitPut(c, function, FacadeKeep(keep_result))
    /\ via_facade' = [via_facade EXCEPT ![nextId] =
                        IF keep_result THEN "keep" ELSE "discard"]

\* self._notify_queue_condition() with the queue lock held, then the queue
\* lock is released.  A submit that made no future returns None in the same
\* step; one that made a future has yet to return it.
SubmitNotify(c) ==
    /\ pc[c] = "submit_notify"
    /\ queue_condition = NoOne
    /\ tpc' = NotifyAll(tpc)
    /\ queue_lock' = NoOne
    /\ IF submit_call[c].future = 0
         THEN /\ pc' = [pc EXCEPT ![c] = "idle"]
              /\ submit_call' = [submit_call EXCEPT ![c] = NoCall]
         ELSE /\ pc' = [pc EXCEPT ![c] = "submit_return"]
              /\ UNCHANGED submit_call
    /\ UNCHANGED <<joinTarget, stop_lock, queue_condition, stopped, call_queue,
                   nextId, runner, nthreads, function_call, remaining,
                   repetition_interval, sinceDispatch, dispatched, stopReturned,
                   keep_results, via_facade, setter_arg, raised>>
    /\ UNCHANGED execVars

\* return future: the caller has the future; the locals are gone.
SubmitReturn(c) ==
    /\ pc[c] = "submit_return"
    /\ submit_call[c].future # 0
    /\ pc' = [pc EXCEPT ![c] = "idle"]
    /\ submit_call' = [submit_call EXCEPT ![c] = NoCall]
    /\ UNCHANGED <<joinTarget, lockVars, stopped, call_queue, nextId, runner,
                   nthreads, threadVars, repetition_interval, sinceDispatch,
                   dispatched, stopReturned, keep_results, via_facade,
                   setter_arg, raised>>
    /\ UNCHANGED execVars

\* ------------------------------------------------------------------- start
\* A caller enters start().  (The model starts at most MaxThreads threads.)
StartCall(c) ==
    /\ pc[c] = "idle"
    /\ stopped => nthreads + Cardinality({d \in Callers :
                       pc[d] \in {"start_check", "start_lock"}}) < MaxThreads
    /\ pc' = [pc EXCEPT ![c] = "start_check"]
    /\ stopReturned' = FALSE
    /\ UNCHANGED <<joinTarget, lockVars, stopped, call_queue, nextId, runner,
                   nthreads, threadVars, repetition_interval, sinceDispatch,
                   dispatched>>
    /\ UNCHANGED execVars
    /\ UNCHANGED callVars

\* if self.stopped: the body of start() runs only on a stopped limiter.
\* (Variant: a start() that does not look at the flag.)
StartAlways(s) == TRUE
StartNeeded(s) == s

StartCheck(c) ==
    /\ pc[c] = "start_check"
    /\ stop_lock = NoOne
    /\ pc' = [pc EXCEPT ![c] = IF StartNeeded(stopped) THEN "start_lock" ELSE "idle"]
    /\ UNCHANGED stopReturned
    /\ UNCHANGED <<joinTarget, lockVars, stopped, call_queue, nextId, runner,
                   nthreads, threadVars, repetition_interval, sinceDispatch,
                   dispatched>>
    /\ UNCHANGED execVars
    /\ UNCHANGED callVars

\* with self._stop_lock: a new Thread is made the runner and started, and
\* _stopped becomes False.  The new thread's first step reads self.stopped,
\* which needs the stop lock, so it sees the value written here.
StartSpawn(c) ==
    /\ pc[c] = "start_lock"
    /\ stop_lock = NoOne
    /\ nthreads < MaxThreads
    /\ nthreads' = nthreads + 1
    /\ runner' = nthreads + 1
    /\ tpc' = [tpc EXCEPT ![nthreads + 1] = "loop"]
    /\ stopped' = FALSE
    /\ pc' = [pc EXCEPT ![c] = "idle"]
    /\ UNCHANGED <<joinTarget, lockVars, call_queue, nextId, function_call,
                   remaining, repetition_interval, sinceDispatch, dispatched,
                   stopReturned>>
    /\ UNCHANGED execVars
    /\ UNCHANGED callVars

\* -------------------------------------------------------------------- stop
\* A caller enters stop().
StopCall(c) ==
    /\ pc[c] = "idle"
    /\ pc' = [pc EXCEPT ![c] = "stop_check"]
    /\ UNCHANGED <<joinTarget, lockVars, stopped, call_queue, nextId, runner,
                   nthreads, threadVars, repetition_interval, sinceDispatch,
                   dispatched, stopReturned>>
    /\ UNCHANGED execVars
    /\ UNCHANGED callVars

\* if not self.stopped: the body of stop() runs only on a running limiter.
\* (Variant: a stop() that does not look at the flag.)
StopAlways(s) == TRUE
StopNeeded(s) == ~s

StopCheck(c) ==
    /\ pc[c] = "stop_check"
    /\ stop_lock = NoOne
    /\ pc' = [pc EXCEPT ![c] = IF StopNeeded(stopped) THEN "stop_lock" ELSE "idle"]
    /\ UNCHANGED <<joinTarget, lockVars, stopped, call_queue, nextId, runner,
                   nthreads, threadVars, repetition_interval, sinceDispatch,
                   dispatched, stopReturned>>
    /\ UNCHANGED execVars
    /\ UNCHANGED callVars

\* with self._stop_lock: self._stopped = True
StopSet(c) ==
    /\ pc[c] = "stop_lock"
    /\ stop_lock = NoOne
    /\ stop_lock' = c
    /\ stopped' = TRUE
    /\ pc' = [pc EXCEPT ![c] = "stop_notify"]
    /\ UNCHANGED <<joinTarget, queue_lock, queue_condition, call_queue, nextId,
                   runner, nthreads, threadVars, repetition_interval,
                   sinceDispatch, dispatched, stopReturned>>
    /\ UNCHANGED execVars
    /\ UNCHANGED callVars

\* self._notify_queue_condition() with the stop lock held; then the stop
\* lock is released.
StopNotify(c) ==
    /\ pc[c] = "stop_notify"
    /\ queue_condition = NoOne
    /\ tpc' = NotifyAll(tpc)
    /\ stop_lock' = NoOne
    /\ pc' = [pc EXCEPT ![c] = "stop_join"]
    /\ joinTarget' = [joinTarget EXCEPT ![c] = 0]
    /\ UNCHANGED <<queue_lock, queue_condition, stopped, call_queue, nextId,
                   runner, nthreads, function_call, remaining,
                   repetition_interval, sinceDispatch, dispatched, stopReturned>>
    /\ UNCHANGED execVars
    /\ UNCHANGED callVars

\* self._internal_runner_thread.join(): the attribute is read, then the
\* caller waits for that thread to end.
JoinedThread(c) == runner

StopJoinRead(c) ==
    /\ pc[c] = "stop_join"
    /\ joinTarget[c] = 0
    /\ joinTarget' = [joinTarget EXCEPT ![c] = JoinedThread(c)]
    /\ UNCHANGED <<pc, lockVars, stopped, call_queue, nextId, runner, nthreads,
                   threadVars, repetition_interval, sinceDispatch, dispatched,
                   stopReturned>>
    /\ UNCHANGED execVars
    /\ UNCHANGED callVars

\* (Variant: a stop() that does not wait for the thread to end.)
JoinWithoutWaiting(t) == TRUE
JoinDone(t) == tpc[t] = "dead"

StopJoin(c) ==
    /\ pc[c] = "stop_join"
    /\ joinTarget[c] # 0
    /\ JoinDone(joinTarget[c])
    /\ pc' = [pc EXCEPT ![c] = "idle"]
    /\ joinTarget' = [joinTarget EXCEPT ![c] = 0]
    /\ stopReturned' = TRUE
    /\ UNCHANGED <<lockVars, stopped, call_queue, nextId, runner, nthreads,
                   threadVars, repetition_interval, sinceDispatch, dispatched>>
    /\ UNCHANGED execVars
    /\ UNCHANGED callVars

\* -------------------------------------------------------------------- _run
\* while not self.stopped:
RunLoop(t) ==
    /\ tpc[t] = "loop"
    /\ stop_lock = NoOne
    /\ tpc' = [tpc EXCEPT ![t] = IF stopped THEN "dead" ELSE "enter"]
    /\ UNCHANGED <<pc, joinTarget, lockVars, stopped, call_queue, nextId,
                   runner, nthreads, function_call, remaining,
                   repetition_interval, sinceDispatch, dispatched, stopReturned>>
    /\ UNCHANGED execVars
    /\ UNCHANGED callVars

\* with self._queue_condition:   (and the return of wait(), which takes the
\* condition's lock again)
RunEnter(t) ==
    /\ tpc[t] \in {"enter", "reacquire"}
    /\ queue_condition = NoOne
    /\ queue_condition' = Tid(t)
    /\ tpc' = [tpc EXCEPT ![t] = "check_empty"]
    /\ UNCHANGED <<pc, joinTarget, stop_lock, queue_lock, stopped, call_queue,
                   nextId, runner, nthreads, function_call, remaining,
                   repetition_interval, sinceDispatch, dispatched, stopReturned>>
    /\ UNCHANGED execVars
    /\ UNCHANGED callVars

\* self._queue_is_empty(), called with the condition held: takes the queue
\* lock.  A non-empty queue ends the inner loop ("and" is not evaluated).
QueueIsEmpty(q) == q = <<>>

RunCheckEmpty(t) ==
    /\ tpc[t] = "check_empty"
    /\ queue_lock = NoOne
    /\ tpc' = [tpc EXCEPT ![t] = IF QueueIsEmpty(call_queue) THEN "check_stop"
                                                             ELSE "if_stopped"]
    /\ UNCHANGED <<pc, joinTarget, lockVars, stopped, call_queue, nextId,
                   runner, nthreads, function_call, remaining,
                   repetition_interval, sinceDispatch, dispatched, stopReturned>>
    /\ UNCHANGED execVars
    /\ UNCHANGED callVars

\* ... and not self.stopped: self._queue_condition.wait()
\* wait() releases the condition's lock and blocks until notified.
RunCheckStop(t) ==
    /\ tpc[t] = "check_stop"
    /\ stop_lock = NoOne
    /\ IF stopped
         THEN /\ tpc' = [tpc EXCEPT ![t] = "if_stopped"]
              /\ UNCHANGED queue_condition
         ELSE /\ tpc' = [tpc EXCEPT ![t] = "waiting"]
              /\ queue_condition' = NoOne
    /\ UNCHANGED <<pc, joinTarget, stop_lock, queue_lock, stopped, call_queue,
                   nextId, runner, nthreads, function_call, remaining,
                   repetition_interval, sinceDispatch, dispatched, stopReturned>>
    /\ UNCHANGED execVars
    /\ UNCHANGED callVars

\* if self.stopped: break      (either way the with block is left and the
\* condition's lock released)
RunIfStopped(t) ==
    /\ tpc[t] = "if_stopped"
    /\ stop_lock = NoOne
    /\ tpc' = [tpc EXCEPT ![t] = IF stopped THEN "dead" ELSE "get"]
    /\ queue_condition' = NoOne
    /\ UNCHANGED <<pc, joinTarget, stop_lock, queue_lock, stopped, call_queue,
                   nextId, runner, nthreads, function_call, remaining,
                   repetition_interval, sinceDispatch, dispatched, stopReturned>>
    /\ UNCHANGED execVars
    /\ UNCHANGED callVars

\* with self._queue_lock: function_call = self._call_queue.get()
\* Queue.get() removes and returns the oldest item; it blocks while the queue
\* is empty, here with the queue lock held.
\* (Variants: a get of the newest item; a get that leaves the item queued.)
GetNewest(q) == [item |-> q[Len(q)], rest |-> SubSeq(q, 1, Len(q) - 1)]
GetWithoutRemoving(q) == [item |-> Head(q), rest |-> q]
Get(q) == [item |-> Head(q), rest |-> Tail(q)]

RunGet(t) ==
    /\ tpc[t] = "get"
    /\ queue_lock = NoOne
    /\ IF call_queue # <<>>
         THEN /\ function_call' = [function_call EXCEPT ![t] = Get(call_queue).item]
              /\ call_queue' = Get(call_queue).rest
              /\ tpc' = [tpc EXCEPT ![t] = "handoff"]
              /\ UNCHANGED queue_lock
         ELSE /\ queue_lock' = Tid(t)
              /\ tpc' = [tpc EXCEPT ![t] = "get_blocked"]
              /\ UNCHANGED <<function_call, call_queue>>
    /\ UNCHANGED <<pc, joinTarget, stop_lock, queue_condition, stopped, nextId,
                   runner, nthreads, remaining, repetition_interval,
                   sinceDispatch, dispatched, stopReturned>>
    /\ UNCHANGED execVars
    /\ UNCHANGED callVars

\* self._executor.submit(self._execute_function_call, function_call)
Gap == IF dispatched = <<>> THEN -1 ELSE sinceDispatch

\* self._executor.submit(...) appends a work item to the pool's unbounded
\* work queue and returns: it is accepted whatever the workers are doing.
\* (Variant: the pool accepts a call only when a worker is free.)
PoolAcceptsWhenFree == \A r \in RecordIds : wpc[r] \notin {"submitted", "taken"}
PoolAccepts == TRUE

RunHandOff(t) ==
    /\ tpc[t] = "handoff"
    /\ PoolAccepts
    /\ dispatched' = Append(dispatched,
                            [id |-> function_call[t], by |-> t, gap |-> Gap])
    /\ sinceDispatch' = 0
    /\ function_call' = [function_call EXCEPT ![t] = 0]
    /\ wpc' = [wpc EXCEPT ![function_call[t]] = "submitted"]
    /\ tpc' = [tpc EXCEPT ![t] = "sleep_read"]
    /\ UNCHANGED <<pc, joinTarget, lockVars, stopped, call_queue, nextId,
                   runner, nthreads, remaining, repetition_interval,
                   stopReturned, fn, future, cloop, loop_callbacks>>
    /\ UNCHANGED callVars

\* sleep(self.repetition_interval): the property is read under the interval
\* lock, then the thread sleeps for that long.
\* (Variant: no sleep between two hand-offs.)
SleepSkipped == Min(repetition_interval, 0)
\* (Variant: a sleep that never lasts more than one unit.)
SleepCapped == Min(repetition_interval, 1)
SleepTime == repetition_interval

\* sleep() raises ValueError for a negative length; nothing in _run catches
\* it, so the thread ends there.
RunSleep(t) ==
    /\ tpc[t] = "sleep_read"
    /\ IF SleepTime < 0
         THEN /\ tpc' = [tpc EXCEPT ![t] = "dead"]
              /\ UNCHANGED remaining
         ELSE /\ remaining' = [remaining EXCEPT ![t] = SleepTime]
              /\ tpc' = [tpc EXCEPT ![t] = "sleeping"]
    /\ UNCHANGED <<pc, joinTarget, lockVars, stopped, call_queue, nextId,
                   runner, nthreads, function_call, repetition_interval,
                   sinceDispatch, dispatched, stopReturned>>
    /\ UNCHANGED execVars
    /\ UNCHANGED callVars

RunWake(t) ==
    /\ tpc[t] = "sleeping"
    /\ remaining[t] = 0
    /\ tpc' = [tpc EXCEPT ![t] = "loop"]
    /\ UNCHANGED <<pc, joinTarget, lockVars, stopped, call_queue, nextId,
                   runner, nthreads, function_call, remaining,
                   repetition_interval, sinceDispatch, dispatched, stopReturned>>
    /\ UNCHANGED execVars
    /\ UNCHANGED callVars

\* One unit of time passes: every sleep in progress has one unit less to go.
Tick ==
    /\ \/ dispatched # <<>> /\ sinceDispatch < MaxInterval
       \/ \E t \in Threads : tpc[t] = "sleeping" /\ remaining[t] > 0
    /\ sinceDispatch' = IF dispatched = <<>> THEN 0
                        ELSE Min(sinceDispatch + 1, MaxInterval)
    /\ remaining' = [t \in Threads |->
                        IF tpc[t] = "sleeping" THEN Max(remaining[t] - 1, 0)
                                               ELSE remaining[t]]
    /\ UNCHANGED <<pc, joinTarget, lockVars, stopped, call_queue, nextId,
                   runner, nthreads, tpc, function_call, repetition_interval,
                   dispatched, stopReturned>>
    /\ UNCHANGED execVars
    /\ UNCHANGED callVars

\* ------------------------------------------------- _execute_function_call
Functions == {"returns", "raises", "coroutine"}
IsCoroutineFunction(f) == f = "coroutine"

\* How a call of record r's function ends: with the value or with the error
\* of that call (a coroutine here returns).
Outcome(r) == [kind |-> IF fn[r] = "raises" THEN "exception" ELSE "result", of |-> r]

\* if future: call_soon_threadsafe(future.set_result, result), and in the
\* except branch call_soon_threadsafe(future.set_exception, error).
\* (Variant: the except branch settles with set_result as well.)
SettleAlwaysAsResult(r, outcome) ==
    IF future[r].state = "none" THEN <<>>
    ELSE <<[future |-> r, method |-> "set_result", arg |-> outcome.of]>>

\* (Variant: the outcome is handed to the loop whether or not the record has
\* a future.)
SettleUnguarded(r, outcome) ==
    <<[future |-> r,
       method |-> IF outcome.kind = "exception" THEN "set_exception"
                                                ELSE "set_result",
       arg |-> outcome.of]>>

\* (Variant: the result is handed to the loop and then the error as well.)
SettleTwice(r, outcome) ==
    IF future[r].state = "none" THEN <<>>
    ELSE <<[future |-> r, method |-> "set_result", arg |-> outcome.of],
           [future |-> r, method |-> "set_exception", arg |-> outcome.of]>>

SettleCall(r, outcome) ==
    IF future[r].state = "none" THEN <<>>
    ELSE <<[future |-> r,
            method |-> IF outcome.kind = "exception" THEN "set_exception"
                                                     ELSE "set_result",
            arg |-> outcome.of]>>

\* self._executor = ThreadPoolExecutor(): the pool keeps the calls handed to
\* it in a queue, oldest first, and a free worker takes the oldest one.
\* (The model's pool has MaxWorkers workers.)
Busy == {r \in RecordIds : wpc[r] \notin {"none", "submitted", "done"}}
OldestSubmitted(r) ==
    \E i \in 1..Len(dispatched) :
        /\ dispatched[i].id = r
        /\ \A j \in 1..(i - 1) : wpc[dispatched[j].id] # "submitted"

WorkerTake(r) ==
    /\ wpc[r] = "submitted"
    /\ OldestSubmitted(r)
    /\ Cardinality(Busy) < MaxWorkers
    /\ wpc' = [wpc EXCEPT ![r] = "taken"]
    /\ UNCHANGED <<dispatchVars, callVars, fn, future, cloop, loop_callbacks>>

\* A pooled worker runs _execute_function_call(function_call): a plain
\* function is called on the worker's thread and its outcome handed to the
\* future's loop; a coroutine function goes to _execute_coroutine_threaded.
ExecuteCall(r) ==
    /\ wpc[r] = "taken"
    /\ IF IsCoroutineFunction(fn[r])
         THEN /\ wpc' = [wpc EXCEPT ![r] = "coro_new_loop"]
              /\ UNCHANGED loop_callbacks
         ELSE /\ wpc' = [wpc EXCEPT ![r] = "done"]
              /\ loop_callbacks' = loop_callbacks \o SettleCall(r, Outcome(r))
    /\ UNCHANGED <<dispatchVars, callVars, fn, future, cloop>>

\* -------------------------------------------- _execute_coroutine_threaded
\* loop = new_event_loop(); thread = Thread(None, loop.run_forever); thread.start()
CoroStartLoop(r) ==
    /\ wpc[r] = "coro_new_loop"
    /\ cloop' = [cloop EXCEPT ![r].started = TRUE]
    /\ wpc' = [wpc EXCEPT ![r] = "coro_schedule"]
    /\ UNCHANGED <<dispatchVars, callVars, fn, future, loop_callbacks>>

\* future = run_coroutine_threadsafe(coroutine_partial(), loop)
CoroSchedule(r) ==
    /\ wpc[r] = "coro_schedule"
    /\ cloop' = [cloop EXCEPT ![r].scheduled = TRUE]
    /\ wpc' = [wpc EXCEPT ![r] = "coro_stop"]
    /\ UNCHANGED <<dispatchVars, callVars, fn, future, loop_callbacks>>

\* loop.stop(), called from the worker's thread: sets the loop's stopping
\* flag, which run_forever reads after each turn.
StopLoop(l) == [l EXCEPT !.stopping = TRUE]

CoroStop(r) ==
    /\ wpc[r] = "coro_stop"
    /\ cloop' = [cloop EXCEPT ![r] = StopLoop(cloop[r])]
    /\ wpc' = [wpc EXCEPT ![r] = "coro_result"]
    /\ UNCHANGED <<dispatchVars, callVars, fn, future, loop_callbacks>>

\* The loop's thread, in run_forever: one turn runs the callbacks that are
\* ready (the first creates the task, the next steps the coroutine, the last
\* hands its outcome to the concurrent future), then the stopping flag is
\* read and run_forever returns if it is set.  With nothing ready the loop
\* sleeps in its selector.
LoopTurns == 3
CoroutineDone(l) == l.turns = LoopTurns

LoopTurn(r) ==
    /\ cloop[r].started
    /\ cloop[r].scheduled
    /\ ~cloop[r].exited
    /\ ~CoroutineDone(cloop[r])
    /\ cloop' = [cloop EXCEPT ![r].turns = @ + 1,
                              ![r].exited = cloop[r].stopping]
    /\ UNCHANGED <<dispatchVars, callVars, fn, future, wpc, loop_callbacks>>

\* return future.result(): blocks until the coroutine's outcome has reached
\* the concurrent future; the outcome then goes the way of a plain call's.
CoroResult(r) ==
    /\ wpc[r] = "coro_result"
    /\ CoroutineDone(cloop[r])
    /\ wpc' = [wpc EXCEPT ![r] = "done"]
    /\ loop_callbacks' = loop_callbacks \o SettleCall(r, Outcome(r))
    /\ UNCHANGED <<dispatchVars, callVars, fn, future, cloop>>

\* self._event_loop runs its next callback: future.set_result(result) or
\* future.set_exception(error).  On a future that is already done both raise
\* InvalidStateError inside the loop and leave the future as it is.
SetFuture(f, cb) ==
    IF f.state # "pending" THEN f
    ELSE [state |-> IF cb.method = "set_result" THEN "resolved" ELSE "failed",
          of |-> cb.arg]

EventLoopRun ==
    /\ pc[LoopThread] = "idle"
    /\ loop_callbacks # <<>>
    /\ LET cb == Head(loop_callbacks)
       IN  future' = [future EXCEPT ![cb.future] = SetFuture(future[cb.future], cb)]
    /\ loop_callbacks' = Tail(loop_callbacks)
    /\ UNCHANGED <<dispatchVars, callVars, fn, wpc, cloop>>

Execute(r) ==
    \/ WorkerTake(r) \/ ExecuteCall(r) \/ CoroStartLoop(r) \/ CoroSchedule(r) \/ CoroStop(r)
    \/ LoopTurn(r) \/ CoroResult(r)

\* ------------------------------------------------- the repetition interval
\* The values a caller can write for the interval, in whole seconds: a float,
\* an int (it has __float__), a str or a dict (they have not), and the
\* arguments of a RepetitionInterval(timeframe, every, times) with ints for
\* every and times.  A quotient is kept only where it is a whole number.
FloatValues == {0 - 1, 0, 2}
IntValues == {0 - 1, 3}
Timeframes == {"second", "minute", "hour", "s", "m", "h",
               "seconds", "minutes", "hours", "day"}
EveryValues == {0 - 1, 1, 2}
TimesValues == {0 - 1, 0, 1, 3}

Abs(n) == IF n < 0 THEN 0 - n ELSE n

\* base_interval = 1.0, then *= 1, *= 60 or *= 3600 by the timeframe; 0 where
\* no case but `case _` matches.
BaseInterval(timeframe) ==
    CASE timeframe \in {"seconds", "s"} -> 1
      [] timeframe \in {"minutes", "m"} -> 60
      [] timeframe \in {"hours", "h"} -> 3600
      [] OTHER -> 0

Representable(base, times) == times = 0 \/ base % Abs(times) = 0

RepetitionIntervals ==
    {ri \in [kind : {"RepetitionInterval"}, timeframe : Timeframes,
             every : EveryValues, times : TimesValues] :
        Representable(BaseInterval(ri.timeframe), ri.times)}

IntervalInputs ==
    [kind : {"float"}, value : FloatValues] \cup [kind : {"int"}, value : IntValues]
        \cup {[kind |-> "str"], [kind |-> "dict"]} \cup RepetitionIntervals

\* RepetitionInterval.__post_init__: the timeframe is one of the Literal's
\* arguments and every and times are ints, or ValueError.
ModelTimeframes == {"second", "minute", "hour", "s", "m", "h"}
PostInit(ri) ==
    IF ri.timeframe \in ModelTimeframes THEN "none" ELSE "ValueError"

\* base_interval /= times for a quotient that is a whole number.
Quotient(base, times) ==
    IF times < 0 THEN 0 - (base \div Abs(times)) ELSE base \div times

\* _calculate_repetition_interval: the error it raises, or the seconds it
\* returns.  `old` is what stays stored when it raises.
CalculateRepetitionInterval(ri, old) ==
    IF BaseInterval(ri.timeframe) = 0
      THEN [error |-> "ValueError", value |-> old]
    ELSE IF ri.times = 0
      THEN [error |-> "ZeroDivisionError", value |-> old]
    ELSE [error |-> "none",
          value |-> Quotient(BaseInterval(ri.timeframe), ri.times) * ri.every]

\* _typecheck_set_repetition_interval_type: a float is stored as it is, a
\* RepetitionInterval as the seconds calculated from it, a value with
\* __float__ as float(value); anything else raises TypeError.
\* (Variant: a value of a wrong type is let through and nothing is stored.)
TypecheckLenient(x, old) ==
    CASE x.kind = "float" -> [error |-> "none", value |-> x.value]
      [] x.kind = "RepetitionInterval" -> CalculateRepetitionInterval(x, old)
      [] x.kind = "int" -> [error |-> "none", value |-> x.value]
      [] OTHER -> [error |-> "none", value |-> old]

TypecheckSetRepetitionIntervalType(x, old) ==
    CASE x.kind = "float" -> [error |-> "none", value |-> x.value]
      [] x.kind = "RepetitionInterval" -> CalculateRepetitionInterval(x, old)
      [] x.kind = "int" -> [error |-> "none", value |-> x.value]
      [] OTHER -> [error |-> "TypeError", value |-> old]

\* The caller's statement as a whole: the value is made first, and a
\* RepetitionInterval that its own validation refuses never reaches the
\* limiter.
StoreInterval(x, old) ==
    IF x.kind = "RepetitionInterval" /\ PostInit(x) # "none"
      THEN [error |-> PostInit(x), value |-> old]
      ELSE TypecheckSetRepetitionIntervalType(x, old)

\* RateLimiter(x): when storing the interval raises there is no limiter, and
\* the caller is left with the error.
InitInterval ==
    \E x \in IntervalInputs :
        LET r == StoreInterval(x, 0)
        IN  /\ setter_arg = x
            /\ raised = r.error
            /\ repetition_interval = r.value
            /\ pc = [c \in Callers |->
                       IF c \in Owner /\ r.error # "none" THEN "no_limiter"
                                                          ELSE "idle"]
            /\ InitFields

\* limiter.repetition_interval = x: the caller enters the setter ...
SetCall(c, x) ==
    /\ pc[c] = "idle"
    /\ pc' = [pc EXCEPT ![c] = "set_interval"]
    /\ setter_arg' = x
    /\ raised' = "none"
    /\ UNCHANGED <<joinTarget, lockVars, stopped, call_queue, nextId, runner,
                   nthreads, threadVars, repetition_interval, sinceDispatch,
                   dispatched, stopReturned, submit_call, keep_results,
                   via_facade>>
    /\ UNCHANGED execVars

\* ... and, with self._rep_interval_lock, the value is stored or an error
\* raised to the caller.
SetApply(c) ==
    /\ pc[c] = "set_interval"
    /\ LET r == StoreInterval(setter_arg, repetition_interval)
       IN  /\ repetition_interval' = r.value
           /\ raised' = r.error
    /\ setter_arg' = NoValue
    /\ pc' = [pc EXCEPT ![c] = "idle"]
    /\ UNCHANGED <<joinTarget, lockVars, stopped, call_queue, nextId, runner,
                   nthreads, threadVars, sinceDispatch, dispatched,
                   stopReturned, submit_call, keep_results, via_facade>>
    /\ UNCHANGED execVars

\* ---------------------------------------------------------- specifications
Submit(c) == DirectSubmitPut(c, "returns", FALSE) \/ SubmitNotify(c)
Start(c) == StartCall(c) \/ StartCheck(c) \/ StartSpawn(c)
Stop(c) == StopCall(c) \/ StopCheck(c) \/ StopSet(c) \/ StopNotify(c) \/ StopJoinRead(c) \/ StopJoin(c)
Run(t) ==
    \/ RunLoop(t) \/ RunEnter(t) \/ RunCheckEmpty(t) \/ RunCheckStop(t)
    \/ RunIfStopped(t) \/ RunGet(t) \/ RunHandOff(t) \/ RunSleep(t) \/ RunWake(t)

\* One owner calls start() and stop(); any number of threads call submit().
Next ==
    \/ \E c \in Submitters : Submit(c)
    \/ \E c \in Owner : Start(c) \/ Stop(c)
    \/ \E t \in Threads : Run(t)
    \/ Tick

Spec == Init /\ [][Next]_vars

\* The execution of the calls: one thread, not the event loop's, submits
\* functions of every kind, with and without a future, to a governor that is
\* started and has no interval; the pool's workers and the caller's event
\* loop run.
InitExec == Init /\ repetition_interval = 0

NextExec ==
    \/ \E f \in Functions, k \in BOOLEAN :
          nextId <= MaxExecRecords /\ DirectSubmitPut("s1", f, k)
    \/ SubmitNotify("s1") \/ SubmitReturn("s1")
    \/ \E c \in Owner : Start(c)
    \/ \E t \in Threads : Run(t)
    \/ \E r \in RecordIds : Execute(r)
    \/ EventLoopRun

SpecExec == InitExec /\ [][NextExec]_vars

\* The interval: the owner makes the limiter with any value, sets the
\* interval to any value and starts the limiter, while another thread
\* submits; the dispatch thread sleeps for the interval it reads.
NextInterval ==
    \/ \E c \in Owner, x \in IntervalInputs : SetCall(c, x)
    \/ \E c \in Owner : SetApply(c)
    \/ \E c \in Owner : Start(c)
    \/ /\ pc[LoopThread] # "no_limiter"
       /\ nextId <= MaxExecRecords
       /\ DirectSubmitPut("s1", "returns", FALSE)
    \/ SubmitNotify("s1")
    \/ \E t \in Threads : Run(t)

SpecInterval == InitInterval /\ [][NextInterval]_vars

\* The facade: a thread submits through a _ContextManagedRateLimiter around
\* the limiter, with and without keep_result; the owner starts the limiter
\* and the dispatch thread hands the records off.
NextFacade ==
    \/ \E k \in BOOLEAN :
          nextId <= MaxExecRecords /\ FacadeSubmitPut("s1", "returns", k)
    \/ SubmitNotify("s1") \/ SubmitReturn("s1")
    \/ \E c \in Owner : Start(c)
    \/ \E t \in Threads : Run(t)

SpecFacade == InitExec /\ [][NextFacade]_vars

\* A change of the interval on a live limiter: the owner starts the limiter
\* and sets the interval to any whole number of time units up to MaxInterval,
\* another thread submits, the dispatch thread sleeps and time passes.
UnitIntervals == [kind : {"float"}, value : 0..MaxInterval]

NextRetime ==
    \/ \E c \in Owner, x \in UnitIntervals : SetCall(c, x)
    \/ \E c \in Owner : SetApply(c)
    \/ \E c \in Owner : Start(c)
    \/ nextId <= MaxExecRecords /\ DirectSubmitPut("s1", "returns", FALSE)
    \/ SubmitNotify("s1")
    \/ \E t \in Threads : Run(t)
    \/ Tick

SpecRetime == Init /\ [][NextRetime]_vars

\* Dispatch against a working pool: one thread submits plain functions
\* without keeping results, the owner starts the limiter, the pool's workers
\* take and run the calls, and time passes.
NextPool ==
    \/ nextId <= MaxRecords /\ DirectSubmitPut("s1", "returns", FALSE)
    \/ SubmitNotify("s1")
    \/ \E c \in Owner : Start(c)
    \/ \E t \in Threads : Run(t)
    \/ \E r \in RecordIds : WorkerTake(r) \/ ExecuteCall(r)
    \/ Tick

SpecPool == Init /\ [][NextPool]_vars

\* Concurrent lifecycle callers: two threads call start() and stop() on the
\* same limiter in any interleaving while a third submits.
LifecycleCallers == {"ctl", "s1"}

NextConcurrent ==
    \/ \E c \in LifecycleCallers : Start(c)
    \/ \E c \in LifecycleCallers : Stop(c)
    \/ nextId <= MaxExecRecords /\ DirectSubmitPut("s2", "returns", FALSE)
    \/ SubmitNotify("s2")
    \/ \E t \in Threads : Run(t)

SpecConcurrent == InitExec /\ [][NextConcurrent]_vars

\* ------------------------------------------------------- waiting for locks
\* The lock a thread needs for its next step (NoOne: none).
CallerWants(c) ==
    CASE pc[c] = "submit_notify" -> "queue_condition"
      [] pc[c] = "stop_notify" -> "queue_condition"
      [] pc[c] \in {"start_check", "start_lock", "stop_check", "stop_lock"}
           -> "stop_lock"
      [] OTHER -> NoOne

ThreadWants(t) ==
    CASE tpc[t] \in {"loop", "check_stop", "if_stopped"} -> "stop_lock"
      [] tpc[t] \in {"enter", "reacquire"} -> "queue_condition"
      [] tpc[t] \in {"check_empty", "get"} -> "queue_lock"
      [] OTHER -> NoOne

HolderOf(l) ==
    CASE l = "stop_lock" -> stop_lock
      [] l = "queue_lock" -> queue_lock
      [] l = "queue_condition" -> queue_condition
      [] OTHER -> NoOne

\* Caller c and dispatch thread t each wait for a lock the other holds.
WaitCycle(c, t) ==
    /\ CallerWants(c) # NoOne
    /\ HolderOf(CallerWants(c)) = Tid(t)
    /\ ThreadWants(t) # NoOne
    /\ HolderOf(ThreadWants(t)) = c

Alive(t) == tpc[t] \notin {"unborn", "dead"}
Ids(q) == {q[i] : i \in 1..Len(q)}
DispatchedIds == {dispatched[i].id : i \in 1..Len(dispatched)}
HeldIds == {function_call[t] : t \in Threads} \ {0}

\* -------------------------------------------------------------- the claims

\* C1: records are handed to the execution pool in exactly the order in
\* which they were enqueued: the k-th hand-off is the k-th record enqueued,
\* and a record taken from the queue but not yet handed off is the next one.
C1_DispatchIsFifo ==
    /\ \A i \in 1..Len(dispatched) : dispatched[i].id = i
    /\ \A t \in Threads :
          function_call[t] # 0 => function_call[t] = Len(dispatched) + 1

\* All records were enqueued by concurrent submitters and handed off, the
\* first and the last by different dispatch threads (a stop() and a start()
\* came in between).
C1_Witness ==
    /\ Len(dispatched) = MaxRecords
    /\ dispatched[1].by # dispatched[MaxRecords].by

\* C2: under a fixed repetition interval, two consecutive hand-offs are at
\* least one interval apart, also when a stop() and a start() lie between.
C2_DispatchesSpaced ==
    \A i \in 2..Len(dispatched) : dispatched[i].gap >= repetition_interval

\* Two consecutive hand-offs by different dispatch threads, exactly one
\* interval of two units apart.
C2_Witness ==
    /\ repetition_interval = 2
    /\ \E i \in 2..Len(dispatched) :
          /\ dispatched[i].by # dispatched[i - 1].by
          /\ dispatched[i].gap = 2

\* C3: there is no state in which a submitter holding the queue lock waits
\* for the queue condition while the dispatch thread holding the queue
\* condition waits for the queue lock.
C3_SubmitNeverBlocks ==
    ~ \E c \in Submitters, t \in Threads :
          /\ pc[c] = "submit_notify"
          /\ queue_lock = c
          /\ queue_condition = Tid(t)
          /\ tpc[t] = "check_empty"

\* C4: a caller inside stop() is never in a cycle of threads each waiting
\* for a lock the other holds, so stop() on a running governor returns.
C4_StopNeverDeadlocks ==
    ~ \E c \in Owner, t \in Threads :
          /\ pc[c] \in {"stop_lock", "stop_notify", "stop_join"}
          /\ WaitCycle(c, t)

\* C5: when a stop() on a running governor has returned, and until the next
\* start(), no dispatch thread is alive: none is in its loop, none holds a
\* dequeued record, so nothing is dequeued or handed to the pool.
C5_StopIsSynchronous ==
    stopReturned =>
        /\ \A t \in Threads : ~Alive(t)
        /\ HeldIds = {}

\* stop() has returned on a governor that had dispatched a record and still
\* has one queued.
C5_Witness ==
    /\ stopReturned
    /\ dispatched # <<>>
    /\ call_queue # <<>>
    /\ \A c \in Callers : pc[c] = "idle"

\* C6: while the governor is running and a record is queued, the dispatch
\* thread can always move on to dequeue it: it is neither blocked in a cycle
\* of lock waits nor left waiting on the condition with no notify to come.
C6_QueuedRecordIsDequeued ==
    \A t \in Threads :
        (Alive(t) /\ ~stopped /\ call_queue # <<>>) =>
            /\ ~ \E c \in Callers : WaitCycle(c, t)
            /\ tpc[t] = "waiting" => \E c \in Callers : pc[c] = "submit_notify"

\* C7: a record is taken from the queue at most once and handed to exactly
\* one worker: no record was handed off twice, and no record is at once in
\* the queue, held by the dispatch thread or with a worker.
C7_RecordHandedOffOnce ==
    /\ Cardinality(DispatchedIds) = Len(dispatched)
    /\ Cardinality(Ids(call_queue)) = Len(call_queue)
    /\ Ids(call_queue) \cap DispatchedIds = {}
    /\ Ids(call_queue) \cap HeldIds = {}
    /\ HeldIds \cap DispatchedIds = {}

\* Two records are with workers, one is held by the dispatch thread and
\* none is left in the queue.
C7_Witness ==
    /\ Len(dispatched) = 2
    /\ HeldIds # {}
    /\ call_queue = <<>>
    /\ nextId > MaxRecords

\* C8: records submitted while the governor is stopped stay in the queue,
\* records queued when stop() is requested are not dropped, and whatever is
\* dispatched after the next start() is dispatched in submission order: at
\* all times the hand-offs, the record in the dispatch thread's hand and the
\* queue make up the records submitted, in order; and no step taken while the
\* governor is stopped (never started, or stop() has returned) dispatches or
\* dequeues anything.
AllRecordsInOrder ==
    LET held == IF HeldIds = {} THEN <<>> ELSE <<CHOOSE r \in HeldIds : TRUE>>
        all == [i \in 1..Len(dispatched) |-> dispatched[i].id] \o held \o call_queue
    IN  /\ Len(all) = nextId - 1
        /\ \A i \in 1..Len(all) : all[i] = i

Quiescent == nthreads = 0 \/ stopReturned

C9_HandleGetsOwnOutcome ==
    \A r \in RecordIds :
        /\ future[r].state = "resolved" => fn[r] # "raises" /\ future[r].of = r
        /\ future[r].state = "failed" => fn[r] = "raises" /\ future[r].of = r
        /\ (wpc[r] = "done" /\ loop_callbacks = <<>>) => future[r].state # "pending"

\* Two kept calls, the first raising and the second returning, each settled
\* with its own outcome.
C9_Witness ==
    /\ fn[1] = "raises" /\ future[1] = [state |-> "failed", of |-> 1]
    /\ fn[2] = "returns" /\ future[2] = [state |-> "resolved", of |-> 2]

\* C10: a dispatched coroutine is always driven to completion: its worker is
\* never left in future.result() with the coroutine unfinished on a loop
\* whose run_forever has already returned.
C10_CoroutineCompletes ==
    \A r \in RecordIds :
        ~ (wpc[r] = "coro_result" /\ cloop[r].exited /\ ~CoroutineDone(cloop[r]))

\* ----------------------------------------------------------------- C11
\* A record submitted with keep_result false whose function raises.
Unkept(r) == keep_results[r] = "discard" /\ fn[r] = "raises"

InSubmit == {c \in Callers : pc[c] \in {"submit_notify", "submit_return"}}
Enqueued == {r \in RecordIds : keep_results[r] # "none"}

\* submit has a future to return exactly when keep_result was true, that
\* future is the one bundled in the record it enqueued, and a record submitted
\* with keep_result false carries no future.
HandleIffKept ==
    /\ \A c \in InSubmit :
          LET r == submit_call[c].function_call
          IN  /\ keep_results[r] = "keep" => submit_call[c].future = r
              /\ keep_results[r] = "discard" => submit_call[c].future = 0
              /\ pc[c] = "submit_return" => keep_results[r] = "keep"
    /\ \A r \in Enqueued :
          keep_results[r] = "discard" <=> future[r] = NoFuture

\* C12 (as claimed): a handle is returned iff keep_result is true, it is the
\* one bundled in the enqueued record, and it is Pending at the moment submit
\* returns it.
C12_ReturnedHandleIsPending ==
    /\ HandleIffKept
    /\ \A c \in Callers :
          pc[c] = "submit_return" => future[submit_call[c].future].state = "pending"

\* C12 (amended): a handle is returned iff keep_result is true and it is the
\* one bundled in the enqueued record; it is Pending when it is created and for
\* as long as submit holds the queue lock.  At the moment submit returns it, on
\* a thread other than the event loop's, it is Pending or already settled with
\* the outcome of its own call.
C12_ReturnedHandleIsBundled ==
    /\ HandleIffKept
    /\ \A c \in Callers :
          /\ (pc[c] = "submit_notify" /\ submit_call[c].future # 0)
                => future[submit_call[c].future] = PendingFuture
          /\ pc[c] = "submit_return"
                => \/ future[submit_call[c].future] = PendingFuture
                   \/ future[submit_call[c].future].of = submit_call[c].future

\* submit is about to return a future that is still Pending, and an earlier
\* submit without keep_result has left a record with no future.
C12_Witness ==
    \E c \in Callers :
        /\ pc[c] = "submit_return"
        /\ future[submit_call[c].future] = PendingFuture
        /\ \E r \in Enqueued : keep_results[r] = "discard" /\ future[r] = NoFuture

\* ----------------------------------------------------------------- C13
\* The settles of record r's future that the caller's loop has yet to run.
ScheduledFor(r) ==
    {i \in 1..Len(loop_callbacks) : loop_callbacks[i].future = r}
Settled(f) == f.state \in {"resolved", "failed"}

\* C13: a future is settled once.  At most one settle is ever scheduled for
\* it: one is waiting on the loop only while the future is Pending, never two
\* at a time and never after its call's settle has run; nothing is scheduled
\* before its call has finished on the worker.  Once it is Resolved or Failed
\* its state and value never change, and it never goes back to Pending.
C13_FutureSettledOnce ==
    /\ [](\A r \in RecordIds :
            /\ Cardinality(ScheduledFor(r)) <= 1
            /\ ScheduledFor(r) # {} => future[r] = PendingFuture /\ wpc[r] = "done"
            /\ Settled(future[r]) => wpc[r] = "done")
    /\ [][\A r \in RecordIds :
            /\ Settled(future[r]) => future'[r] = future[r]
            /\ future[r] # future'[r]
                  => \/ future[r] = NoFuture /\ future'[r] = PendingFuture
                     \/ future[r] = PendingFuture /\ Settled(future'[r])]_vars

\* Two futures have been settled, one with a result and one with an error,
\* and the loop has nothing left to run.
C13_Witness ==
    /\ \E r \in RecordIds : future[r].state = "resolved"
    /\ \E r \in RecordIds : future[r].state = "failed"
    /\ loop_callbacks = <<>>

\* ----------------------------------------------------------------- C14
\* The function of record r has been invoked on a pool worker.
Invoked(r) == wpc[r] \notin {"none", "submitted", "taken"}

\* C14: the functions begin executing in submission order: the function of a
\* record enqueued later is never invoked while the function of a record
\* enqueued earlier has not been invoked yet.
C14_InvokedInSubmissionOrder ==
    \A r1, r2 \in RecordIds : (r1 < r2 /\ Invoked(r2)) => Invoked(r1)

\* ----------------------------------------------------------------- C15
\* What a call of start() or stop() that does nothing leaves alone: the flag,
\* the dispatch threads, the locks, the queue and the hand-offs.
LimiterUnchanged ==
    UNCHANGED <<stopped, runner, nthreads, tpc, function_call, remaining,
                lockVars, call_queue, nextId, dispatched, sinceDispatch,
                repetition_interval>>

\* C15: start() on a running limiter is a no-op.  Its check finds the flag
\* false and the call returns in that step, leaving the flag false and the
\* dispatch threads, the queue and the hand-offs untouched; at no time is
\* there more than one live dispatch thread, and the hand-offs stay in queue
\* order.
C15_StartIsIdempotent ==
    /\ [][\A c \in Owner :
            (pc[c] = "start_check" /\ ~stopped /\ pc'[c] # pc[c])
                => pc'[c] = "idle" /\ ~stopped' /\ LimiterUnchanged]_vars
    /\ [](Cardinality({t \in Threads : Alive(t)}) <= 1)
    /\ [](\A i \in 1..Len(dispatched) : dispatched[i].id = i)

\* start() has been called on a running limiter that has already handed a
\* record off and has another waiting in its queue.
C15_Witness ==
    \E c \in Owner :
        /\ pc[c] = "start_check" /\ ~stopped
        /\ dispatched # <<>> /\ call_queue # <<>>
        /\ runner # 0 /\ Alive(runner)

\* ----------------------------------------------------------------- C16
\* C16: with one thread calling start() and stop() one after the other, the
\* flag is true until the first start(), false when a start() returns, true
\* when a stop() returns, and unchanged between two calls.  stop() on a
\* stopped limiter never waits for a lock and returns in one step, leaving
\* the limiter as it was.
C16_StoppedFollowsLifecycle ==
    /\ [](runner = 0 => stopped)
    /\ [](\A c \in Owner : (pc[c] = "stop_check" /\ stopped) => stop_lock = NoOne)
    /\ [][\A c \in Owner :
            /\ (pc[c] \in {"start_check", "start_lock"} /\ pc'[c] = "idle")
                  => ~stopped'
            /\ (pc[c] \in {"stop_check", "stop_join"} /\ pc'[c] = "idle")
                  => stopped'
            /\ (pc[c] = "idle" /\ pc'[c] = "idle") => stopped' = stopped
            /\ (pc[c] = "stop_check" /\ stopped /\ pc'[c] # pc[c])
                  => pc'[c] = "idle" /\ LimiterUnchanged]_vars

\* After start(), stop(), start(), stop() the limiter is stopped and a further
\* stop() is under way.
C16_Witness ==
    \E c \in Owner :
        /\ pc[c] = "stop_check" /\ stopped
        /\ stopReturned /\ nthreads = MaxThreads

\* ----------------------------------------------------------------- C17
\* A value that is no number, has no __float__ and is no RepetitionInterval,
\* or the arguments of a RepetitionInterval whose timeframe is none of the
\* six tokens.
Unusable(x) ==
    \/ x.kind \in {"str", "dict"}
    \/ x.kind = "RepetitionInterval" /\ x.timeframe \notin ModelTimeframes

C18_SpecResolves ==
    (/\ setter_arg.kind = "RepetitionInterval"
     /\ setter_arg.timeframe \in {"second", "minute", "hour", "s", "m", "h"}
     /\ setter_arg.every > 0
     /\ setter_arg.times > 0)
        => LET r == StoreInterval(setter_arg, repetition_interval)
               base == CASE setter_arg.timeframe \in {"second", "s"} -> 1
                         [] setter_arg.timeframe \in {"minute", "m"} -> 60
                         [] setter_arg.timeframe \in {"hour", "h"} -> 3600
           IN  /\ r.error = "none"
               /\ r.value * setter_arg.times = base * setter_arg.every

\* ----------------------------------------------------------------- C19
\* C19: the interval a limiter has stored is never negative, and no dispatch
\* thread is ended by a sleep of negative length.
C19_IntervalNonnegative ==
    (\A c \in Owner : pc[c] # "no_limiter")
        => /\ repetition_interval >= 0
           /\ \A t \in Threads : tpc[t] # "dead"

\* ----------------------------------------------------------------- C20
\* The records a submit through the facade was called for.
ThroughFacade == {r \in RecordIds : via_facade[r] # "none"}
InLimiter(r) == r \in Ids(call_queue) \cup HeldIds \cup DispatchedIds

C21_IntervalReadForEachSleep ==
    /\ [][\A c \in Owner :
            (pc[c] = "set_interval" /\ pc'[c] = "idle")
                => /\ repetition_interval' = setter_arg.value
                   /\ raised' = "none"
                   /\ UNCHANGED <<tpc, remaining>>]_vars
    /\ [][\A t \in Threads :
            /\ (tpc[t] = "sleep_read" /\ tpc'[t] # "sleep_read")
                  => /\ tpc'[t] = "sleeping"
                     /\ remaining'[t] = repetition_interval
                     /\ dispatched # <<>> /\ sinceDispatch = sinceDispatch'
            /\ (tpc[t] = "sleeping" /\ remaining'[t] # remaining[t])
                  => /\ remaining'[t] = remaining[t] - 1
                     /\ tpc'[t] = "sleeping"
            /\ (tpc[t] = "sleeping" /\ tpc'[t] # "sleeping")
                  => remaining[t] = 0]_vars

\* The setter has returned on a running limiter while a sleep is in progress
\* that has more time to go than the whole of the new interval, after an
\* earlier sleep that was shorter.
C21_Witness ==
    /\ \A c \in Owner : pc[c] = "idle"
    /\ raised = "none" /\ setter_arg = NoValue
    /\ Len(dispatched) >= 2
    /\ \E t \in Threads :
          /\ tpc[t] = "sleeping"
          /\ remaining[t] > repetition_interval
          /\ dispatched[2].gap < remaining[t]

\* ----------------------------------------------------------------- C22
\* C22: dispatch never waits for a call to finish.  A dispatch thread that
\* holds a dequeued record can hand it to the pool at once, and a thread that
\* has handed one over can start its sleep at once, whatever the earlier
\* calls and the pool's workers are doing; a thread whose sleep is over can
\* go on to the next iteration in the same way.
Running == {r \in RecordIds : wpc[r] = "taken"}

C22_DispatchNeverWaitsForCalls ==
    \A t \in Threads :
        /\ tpc[t] = "handoff" => ENABLED RunHandOff(t)
        /\ tpc[t] = "sleep_read" => ENABLED RunSleep(t)
        /\ (tpc[t] = "sleeping" /\ remaining[t] = 0) => ENABLED RunWake(t)

\* Three records were dispatched, the third exactly one positive interval
\* after the second, while the first two calls are still running and occupy
\* every worker of the pool.
C22_Witness ==
    /\ Len(dispatched) = 3
    /\ repetition_interval > 0
    /\ dispatched[3].gap = repetition_interval
    /\ {dispatched[1].id, dispatched[2].id} \subseteq Running
    /\ Cardinality(Busy) = MaxWorkers
    /\ wpc[dispatched[3].id] = "submitted"

\* ----------------------------------------------------------------- C23
\* C23: under concurrent start() and stop() callers at most one dispatch
\* thread is alive at any time, and the thread handle is not replaced between
\* the moment a stop() call sets the flag and the moment it reads the handle
\* to join it, so stop() joins the thread that was running when it set the
\* flag.
AliveThreads == {t \in Threads : Alive(t)}
StopBeforeJoinRead(c) ==
    pc[c] \in {"stop_notify", "stop_join"} /\ joinTarget[c] = 0

C23_OneDispatchThread ==
    /\ [](Cardinality(AliveThreads) <= 1)
    /\ [][\A c \in Callers : StopBeforeJoinRead(c) => runner' = runner]_vars

\* ----------------------------------------------------------------- C24
\* C24: a dispatch thread that executes the blocking dequeue with the queue
\* lock held finds a record in the queue: no thread ever blocks in
\* Queue.get() on an empty queue while it holds the queue lock.
BlockedInGet(t) == tpc[t] = "get_blocked" /\ queue_lock = Tid(t)

C24_DequeueFindsRecord ==
    /\ [](\A t \in Threads : ~BlockedInGet(t))
    /\ [][\A t \in Threads :
            (tpc[t] = "get" /\ tpc'[t] # "get") => call_queue # <<>>]_vars
====
